---- MODULE Spec2Model ----
(***************************************************************************)
(* PDF quality checker: the batch scheduler (batch_processor.py) and the   *)
(* issue aggregation of one analysis (pdf_analyzer.py,                     *)
(* print_quality_checker.py).                                              *)
(*                                                                         *)
(* Part 1 models BatchProcessor as threads: the thread that runs           *)
(* process_all, max_workers worker threads running _worker_thread, and the *)
(* caller's thread that issues pause(), resume() and stop().  Every read   *)
(* and write of a shared attribute is a step of its own, so the            *)
(* interleavings of the unsynchronised attributes are those of the code.   *)
(*                                                                         *)
(* Part 2 models what one PDFAnalyzer instance appends to the issues list  *)
(* of each document it analyses.                                           *)
(***************************************************************************)
EXTENDS Integers, Sequences, FiniteSets, TLC

\* ------------------------------------------------------------------ bounds
\* Number of worker threads of the pool (the code's default is 3; the claims
\* speak of N workers).
NumWorkers == 2
\* Number of entries of file_dict.
NumJobs == 2
\* Number of analyze() calls made on one PDFAnalyzer instance (the batch makes
\* two: the scan and the re-scan after an auto-fix).
MaxAnalyses == 2
\* Number of pages of an analysed document.
MaxPages == 2

Workers == 1..NumWorkers
Jobs == 1..NumJobs

VARIABLES
    \* ---- BatchProcessor
    file_dict,        \* file_id -> status stored in file_dict (read at start)
    file_queue,       \* the work queue, a FIFO of file_ids
    result_queue,     \* the result queue, a FIFO of result records
    is_running,       \* self.is_running
    is_paused,        \* self.is_paused
    processed_count,  \* self.processed_count
    error_count,      \* self.error_count
    main_pc,          \* position of the thread running process_all
    wpc,              \* worker -> position in _worker_thread
    cur,              \* worker -> file_id it holds (0: none)
    tmp,              \* worker -> value read by the pending "+= 1"
    ctl_pc,           \* position of the thread calling pause/resume/stop
    reported,         \* file_id -> statuses passed to progress_callback
    taken,            \* file_id -> number of times a worker's get() returned it
    drained,          \* file_ids removed by stop()'s drain
    raised,           \* file_ids in whose pipeline an exception was raised
    \* ---- PDFAnalyzer / PrintQualityChecker
    pqc_issues,       \* PrintQualityChecker.issues of the instance
    pqc_warnings,     \* PrintQualityChecker.warnings of the instance
    issues,           \* the issues list of the last analysis result
    analyses,         \* number of analyze() calls made on the instance
    pages,            \* local_analysis_result['pages'] of that analysis
    an_pc,            \* position of the analyzer inside analyze()
    doc,              \* the document of the latest analyze() call
    preflight_result, \* local_analysis_result['preflight_result'], <<>> before it is set
    result_before,    \* the batch's result['issues'] while it re-scans
    fonts,            \* local_analysis_result['fonts'] of that analysis
    overall_status,   \* preflight_result['overall_status'], "" before the profile check
    images,           \* local_analysis_result['images'] of that analysis
    print_quality,    \* print_quality_result['bleed'] of that analysis
    handles,          \* document handles the latest analyze() call opened and has not closed
    \* ---- one file's pipeline, _process_single_file
    percents,         \* file_id -> percent values passed to progress_callback
    run               \* file_id -> what its pipeline met and the result dict it built (<<>>: not run)

schedVars == <<file_dict, file_queue, result_queue, is_running, is_paused,
               processed_count, error_count, main_pc, wpc, cur, tmp, ctl_pc,
               reported, taken, drained, raised>>
anVars == <<pqc_issues, pqc_warnings, issues, analyses, pages, an_pc, doc,
           preflight_result, result_before,
           fonts,
           overall_status,
           images,
           print_quality,
           handles>>
pipeVars == <<percents, run>>
vars == <<schedVars, anVars, pipeVars>>

\* ======================================================================
\* Part 1: BatchProcessor
\* ======================================================================

\* The per-file record put on the result queue.
FileResult(kind, fid) ==
    [type |-> kind, file_id |-> fid,
     total_files |-> 0, processed |-> 0, errors |-> 0]

\* The keys of an entry of file_dict, {'path': ..., 'status': ...}: no
\* statement of BatchProcessor adds a key to an entry.
FileInfoKeys == {"path", "status"}

\* sum(1 for f in self.file_dict.values() if f.get('auto_fix_applied')).
AutoFixedCount ==
    Cardinality({j \in Jobs : "auto_fix_applied" \in FileInfoKeys})

\* The record _complete_processing puts on the result queue.
BatchResult ==
    [type |-> "batch_complete", file_id |-> 0,
     total_files |-> NumJobs, processed |-> processed_count,
     errors |-> error_count, auto_fixed |-> AutoFixedCount]

RECURSIVE WaitingFrom(_)
\* file_ids k..NumJobs whose file_dict status is 'waiting', in dict order.
WaitingFrom(k) ==
    IF k > NumJobs THEN <<>>
    ELSE (IF file_dict[k] = "waiting" THEN <<k>> ELSE <<>>) \o WaitingFrom(k + 1)

\* The analyzer's variables while the scheduler is looked at.
InitAnIdle ==
    /\ pqc_issues = <<>>
    /\ pqc_warnings = <<>>
    /\ issues = <<>>
    /\ analyses = 0
    /\ pages = <<>>
    /\ an_pc = "idle"
    /\ doc = <<>>
    /\ preflight_result = <<>>
    /\ result_before = <<>>
    /\ fonts = <<>>
    /\ overall_status = ""
    /\ images = <<>>
    /\ print_quality = <<>>
    /\ handles = {}

\* BatchProcessor.__init__, for every file_dict whose entries are 'waiting'
\* or already 'complete'.
InitSched ==
    /\ file_dict \in [Jobs -> {"waiting", "complete"}]
    /\ file_queue = <<>>
    /\ result_queue = <<>>
    /\ is_running = FALSE
    /\ is_paused = FALSE
    /\ processed_count = 0
    /\ error_count = 0
    /\ main_pc = "start"
    /\ wpc = [w \in Workers |-> "idle"]
    /\ cur = [w \in Workers |-> 0]
    /\ tmp = [w \in Workers |-> 0]
    /\ ctl_pc = "idle"
    /\ reported = [j \in Jobs |-> <<>>]
    /\ taken = [j \in Jobs |-> 0]
    /\ drained = {}
    /\ raised = {}
    /\ percents = [j \in Jobs |-> <<>>]
    /\ run = [j \in Jobs |-> <<>>]

Init == InitSched /\ InitAnIdle

flagVars == <<is_running, is_paused>>
countVars == <<processed_count, error_count>>
histVars == <<taken, drained, raised>>

\* ---- process_all ------------------------------------------------------

\* is_running = True, then every 'waiting' entry is put on the queue.
ProcessAllStart ==
    /\ main_pc = "start"
    /\ is_running' = TRUE
    /\ file_queue' = file_queue \o WaitingFrom(1)
    /\ main_pc' = "spawn"
    /\ UNCHANGED <<file_dict, result_queue, is_paused, countVars, wpc, cur,
                   tmp, ctl_pc, reported, histVars, anVars,
                   pipeVars>>

\* The next worker the submit loop starts.
NextToSubmit == CHOOSE w \in Workers :
                    /\ wpc[w] = "idle"
                    /\ \A v \in Workers : v < w => wpc[v] # "idle"

\* executor.submit(self._worker_thread, i); after the last one the thread
\* waits for the futures.
SubmitWorker ==
    /\ main_pc = "spawn"
    /\ wpc' = [wpc EXCEPT ![NextToSubmit] = "top"]
    /\ main_pc' = IF NextToSubmit = NumWorkers THEN "wait" ELSE "spawn"
    /\ UNCHANGED <<file_dict, file_queue, result_queue, flagVars, countVars,
                   cur, tmp, ctl_pc, reported, histVars, anVars,
                   pipeVars>>

\* Faulty variant of the join: it returns as soon as one worker has exited.
JoinedAny == \E w \in Workers : wpc[w] = "done"

\* concurrent.futures.wait(futures) and the executor's shutdown have returned.
Joined == \A w \in Workers : wpc[w] = "done"

\* The join returns; is_running = False.
MainJoin ==
    /\ main_pc = "wait"
    /\ Joined
    /\ is_running' = FALSE
    /\ main_pc' = "complete"
    /\ UNCHANGED <<file_dict, file_queue, result_queue, is_paused, countVars,
                   wpc, cur, tmp, ctl_pc, reported, histVars, anVars,
                   pipeVars>>

\* _complete_processing: the batch_complete record.
CompleteProcessing ==
    /\ main_pc = "complete"
    /\ result_queue' = Append(result_queue, BatchResult)
    /\ main_pc' = "finished"
    /\ UNCHANGED <<file_dict, file_queue, flagVars, countVars, wpc, cur, tmp,
                   ctl_pc, reported, histVars, anVars,
                   pipeVars>>

MainStep == ProcessAllStart \/ SubmitWorker \/ MainJoin \/ CompleteProcessing

\* ---- _worker_thread and _process_single_file --------------------------
\* Positions of a worker:
\*   idle       not yet submitted
\*   top        "while self.is_running"
\*   pause_chk  "while self.is_paused ..."       (the read of is_paused)
\*   pause_run  "... and self.is_running"        (the read of is_running)
\*   get        "self.file_queue.get(timeout=1)"
\*   empty_chk  "except queue.Empty: if self.file_queue.empty(): break"
\*   pipeline   _process_single_file, from the analysis to the reports
\*   pc_read, pc_write   "self.processed_count += 1"
\*   ec_read, ec_write   "self.error_count += 1"
\*   put_error  "self.result_queue.put({'type': 'error', ...})"
\*   done       the thread has returned
\* A step holds one access to an attribute or queue that other threads use,
\* together with the thread-local statements and the progress callback that
\* follow it.
\* Exceptions are raised in the pipeline before the result is put (WRaise)
\* and in the completion callback or the log call after the 'complete'
\* result was put (WCompleteRaise).  An exception of the error callback or
\* the error log leaves _process_single_file, is logged by the loop's
\* "except Exception", and the loop goes on as it does after WPutError.

Goto(w, to) == wpc' = [wpc EXCEPT ![w] = to]

Report(fid, status) == reported' = [reported EXCEPT ![fid] = Append(@, status)]

WTop(w) ==
    /\ wpc[w] = "top"
    /\ Goto(w, IF is_running THEN "pause_chk" ELSE "done")
    /\ UNCHANGED <<file_dict, file_queue, result_queue, flagVars, countVars,
                   main_pc, cur, tmp, ctl_pc, reported, histVars, anVars,
                   pipeVars>>

WPauseChk(w) ==
    /\ wpc[w] = "pause_chk"
    /\ Goto(w, IF is_paused THEN "pause_run" ELSE "get")
    /\ UNCHANGED <<file_dict, file_queue, result_queue, flagVars, countVars,
                   main_pc, cur, tmp, ctl_pc, reported, histVars, anVars,
                   pipeVars>>

\* Faulty variant of the pause loop: it waits for the pause flag alone.
PauseLoopTargetBlind == "pause_chk"

\* "while self.is_paused and self.is_running", the second operand: with
\* is_running still set the loop sleeps and tests again, else it is left.
PauseLoopTarget == IF is_running THEN "pause_chk" ELSE "get"

\* is_running still set: time.sleep(0.1) and the inner loop again.
WPauseRun(w) ==
    /\ wpc[w] = "pause_run"
    /\ Goto(w, PauseLoopTarget)
    /\ UNCHANGED <<file_dict, file_queue, result_queue, flagVars, countVars,
                   main_pc, cur, tmp, ctl_pc, reported, histVars, anVars,
                   pipeVars>>

\* Faulty variant of get(): the item is handed out and stays in the queue.
QueueAfterGetKept == file_queue

\* The queue after get() has removed its head.
QueueAfterGet == Tail(file_queue)

\* get() returns the head of the queue; _process_single_file starts and
\* calls progress_callback(file_id, 'processing', 10, ...).
WGet(w) ==
    /\ wpc[w] = "get"
    /\ file_queue # <<>>
    /\ cur' = [cur EXCEPT ![w] = Head(file_queue)]
    /\ taken' = [taken EXCEPT ![Head(file_queue)] = @ + 1]
    /\ file_queue' = QueueAfterGet
    /\ Report(Head(file_queue), "processing")
    /\ Goto(w, "pipeline")
    /\ UNCHANGED <<file_dict, result_queue, flagVars, countVars, main_pc, tmp,
                   ctl_pc, drained, raised, anVars,
                   pipeVars>>

\* get() times out on an empty queue: queue.Empty.
WGetEmpty(w) ==
    /\ wpc[w] = "get"
    /\ file_queue = <<>>
    /\ Goto(w, "empty_chk")
    /\ UNCHANGED <<file_dict, file_queue, result_queue, flagVars, countVars,
                   main_pc, cur, tmp, ctl_pc, reported, histVars, anVars,
                   pipeVars>>

WEmptyChk(w) ==
    /\ wpc[w] = "empty_chk"
    /\ Goto(w, IF file_queue = <<>> THEN "done" ELSE "top")
    /\ UNCHANGED <<file_dict, file_queue, result_queue, flagVars, countVars,
                   main_pc, cur, tmp, ctl_pc, reported, histVars, anVars,
                   pipeVars>>

\* The pipeline returns; result_queue.put(complete_result).
WPutComplete(w) ==
    /\ wpc[w] = "pipeline"
    /\ result_queue' = Append(result_queue, FileResult("complete", cur[w]))
    /\ Goto(w, "pc_read")
    /\ UNCHANGED <<file_dict, file_queue, flagVars, countVars, main_pc, cur,
                   tmp, ctl_pc, reported, histVars, anVars,
                   pipeVars>>

\* Faulty variant of the per-file boundary: the exception ends the worker.
RaiseTargetExit == "done"

\* Where an exception raised in the try body continues: the except branch,
\* which calls the error handler and then counts the error.
RaiseTarget == "ec_read"

\* The pipeline raises before the result is put.
WRaise(w) ==
    /\ wpc[w] = "pipeline"
    /\ raised' = raised \cup {cur[w]}
    /\ Goto(w, RaiseTarget)
    /\ UNCHANGED <<file_dict, file_queue, result_queue, flagVars, countVars,
                   main_pc, cur, tmp, ctl_pc, reported, taken, drained,
                   anVars,
                   pipeVars>>

\* self.processed_count += 1: the read ...
WPcRead(w) ==
    /\ wpc[w] = "pc_read"
    /\ tmp' = [tmp EXCEPT ![w] = processed_count]
    /\ Goto(w, "pc_write")
    /\ UNCHANGED <<file_dict, file_queue, result_queue, flagVars, countVars,
                   main_pc, cur, ctl_pc, reported, histVars, anVars,
                   pipeVars>>

\* ... and the write; then progress_callback(file_id, 'complete', 100, ...),
\* the log line, task_done(), and the loop again.
WComplete(w) ==
    /\ wpc[w] = "pc_write"
    /\ processed_count' = tmp[w] + 1
    /\ tmp' = [tmp EXCEPT ![w] = 0]
    /\ Report(cur[w], "complete")
    /\ cur' = [cur EXCEPT ![w] = 0]
    /\ Goto(w, "top")
    /\ UNCHANGED <<file_dict, file_queue, result_queue, flagVars, error_count,
                   main_pc, ctl_pc, histVars, anVars,
                   pipeVars>>

\* The same write and callback, but the callback, or the log line after it,
\* raises: control enters the except branch of the same try.
WCompleteRaise(w) ==
    /\ wpc[w] = "pc_write"
    /\ processed_count' = tmp[w] + 1
    /\ tmp' = [tmp EXCEPT ![w] = 0]
    /\ Report(cur[w], "complete")
    /\ raised' = raised \cup {cur[w]}
    /\ Goto(w, RaiseTarget)
    /\ UNCHANGED <<file_dict, file_queue, result_queue, flagVars, error_count,
                   main_pc, cur, ctl_pc, taken, drained, anVars,
                   pipeVars>>

\* self.error_count += 1: the read ...
WEcRead(w) ==
    /\ wpc[w] = "ec_read"
    /\ tmp' = [tmp EXCEPT ![w] = error_count]
    /\ Goto(w, "ec_write")
    /\ UNCHANGED <<file_dict, file_queue, result_queue, flagVars, countVars,
                   main_pc, cur, ctl_pc, reported, histVars, anVars,
                   pipeVars>>

\* ... and the write.
WEcWrite(w) ==
    /\ wpc[w] = "ec_write"
    /\ error_count' = tmp[w] + 1
    /\ tmp' = [tmp EXCEPT ![w] = 0]
    /\ Goto(w, "put_error")
    /\ UNCHANGED <<file_dict, file_queue, result_queue, flagVars,
                   processed_count, main_pc, cur, ctl_pc, reported, histVars,
                   anVars,
                   pipeVars>>

\* result_queue.put({'type': 'error', ...}); then
\* progress_callback(file_id, 'error', 100, ...), the error log, and the
\* loop again.
WPutError(w) ==
    /\ wpc[w] = "put_error"
    /\ result_queue' = Append(result_queue, FileResult("error", cur[w]))
    /\ Report(cur[w], "error")
    /\ cur' = [cur EXCEPT ![w] = 0]
    /\ Goto(w, "top")
    /\ UNCHANGED <<file_dict, file_queue, flagVars, countVars, main_pc, tmp,
                   ctl_pc, histVars, anVars,
                   pipeVars>>

\* The steps of a worker whose pause flag is never found set.
WorkerRunStep(w) ==
    \/ WTop(w) \/ WPauseChk(w)
    \/ WGet(w) \/ WGetEmpty(w) \/ WEmptyChk(w)
    \/ WPutComplete(w) \/ WRaise(w)
    \/ WPcRead(w) \/ WComplete(w) \/ WCompleteRaise(w)
    \/ WEcRead(w) \/ WEcWrite(w) \/ WPutError(w)

WorkerStep(w) == WorkerRunStep(w) \/ WPauseRun(w)

\* ---- pause / resume / stop --------------------------------------------
\* Called from the caller's thread once the pool is running.

\* Faulty variant of pause(): it also empties the queue, as stop() does.
QueueAfterPauseDrained == <<>>

\* pause() does not touch the queue.
QueueAfterPause == file_queue

Pause ==
    /\ main_pc = "wait" /\ ctl_pc = "idle"
    /\ is_paused' = TRUE
    /\ file_queue' = QueueAfterPause
    /\ UNCHANGED <<file_dict, result_queue, is_running, countVars, main_pc,
                   wpc, cur, tmp, ctl_pc, reported, histVars, anVars,
                   pipeVars>>

Resume ==
    /\ main_pc = "wait" /\ ctl_pc = "idle"
    /\ is_paused' = FALSE
    /\ UNCHANGED <<file_dict, file_queue, result_queue, is_running, countVars,
                   main_pc, wpc, cur, tmp, ctl_pc, reported, histVars, anVars,
                   pipeVars>>

\* stop(): self.is_running = False.  A stop() of a batch whose flag is
\* already cleared only clears the pause flag, as resume() does, and finds
\* the queue as the first drain and the workers left it.
StopClearRunning ==
    /\ main_pc = "wait" /\ ctl_pc = "idle"
    /\ is_running
    /\ is_running' = FALSE
    /\ ctl_pc' = "stop_paused"
    /\ UNCHANGED <<file_dict, file_queue, result_queue, is_paused, countVars,
                   main_pc, wpc, cur, tmp, reported, histVars, anVars,
                   pipeVars>>

\* stop(): self.is_paused = False
StopClearPaused ==
    /\ ctl_pc = "stop_paused"
    /\ is_paused' = FALSE
    /\ ctl_pc' = "stop_drain"
    /\ UNCHANGED <<file_dict, file_queue, result_queue, is_running, countVars,
                   main_pc, wpc, cur, tmp, reported, histVars, anVars,
                   pipeVars>>

\* stop(): "while not self.file_queue.empty(): self.file_queue.get_nowait()",
\* one turn of the loop.  A worker that takes the last item between empty()
\* and get_nowait() makes get_nowait() raise, which ends the loop as an
\* empty queue does.
StopDrain ==
    /\ ctl_pc = "stop_drain"
    /\ IF file_queue # <<>>
       THEN /\ file_queue' = Tail(file_queue)
            /\ drained' = drained \cup {Head(file_queue)}
            /\ UNCHANGED ctl_pc
       ELSE /\ ctl_pc' = "idle"
            /\ UNCHANGED <<file_queue, drained>>
    /\ UNCHANGED <<file_dict, result_queue, flagVars, countVars, main_pc, wpc,
                   cur, tmp, reported, taken, raised, anVars,
                   pipeVars>>

StopStep == StopClearRunning \/ StopClearPaused \/ StopDrain

\* ---- specifications of the scheduler ----------------------------------

\* A batch nobody pauses or stops.
NextRun == MainStep \/ \E w \in Workers : WorkerRunStep(w)
SpecRun == Init /\ [][NextRun]_vars

\* A batch that is paused and resumed, never stopped.
NextPause == MainStep \/ (\E w \in Workers : WorkerStep(w)) \/ Pause \/ Resume
SpecPause == Init /\ [][NextPause]_vars

\* A batch that is paused, resumed and stopped.
NextCtl == NextPause \/ StopStep
SpecCtl == Init /\ [][NextCtl]_vars

\* The paused and resumed batch with the threads scheduled fairly: a thread
\* that can take a step is eventually given the processor.  The caller of
\* pause() and resume() is under no obligation.
SpecPauseFair ==
    /\ Init /\ [][NextPause]_vars
    /\ WF_vars(MainStep)
    /\ \A w \in Workers : WF_vars(WorkerStep(w))

\* ---- what the claims speak of -----------------------------------------

WaitingJobs == {j \in Jobs : file_dict[j] = "waiting"}

\* Number of records of the given type pushed for file_id j.
NumRecords(kind, j) ==
    Cardinality({i \in 1..Len(result_queue) :
                    /\ result_queue[i].type = kind
                    /\ result_queue[i].file_id = j})

\* Number of records of the given type in the result queue.
NumType(kind) ==
    Cardinality({i \in 1..Len(result_queue) : result_queue[i].type = kind})

\* Number of times j stands in the work queue.
InQueue(j) == Cardinality({i \in 1..Len(file_queue) : file_queue[i] = j})

\* A terminal status has been reported for j.
Terminal(j) ==
    \E i \in 1..Len(reported[j]) : reported[j][i] \in {"complete", "error"}

\* Some worker holds j.
Held(j) == \E w \in Workers : cur[w] = j

\* The last status reported for j ("" when none was).
LastStatus(j) ==
    IF reported[j] = <<>> THEN "" ELSE reported[j][Len(reported[j])]

\* The statuses reported so far for a job are a prefix of
\* processing, complete  or of  processing, error.
ForwardOnly(s) ==
    \/ s = <<>>
    \/ s = <<"processing">>
    \/ s = <<"processing", "complete">>
    \/ s = <<"processing", "error">>

BatchEmitted == NumType("batch_complete") >= 1

\* The summary of the batch_complete record (the last record once emitted).
Summary == result_queue[Len(result_queue)]

\* ---- C1 ---------------------------------------------------------------
\* C1: in a batch that is neither paused nor stopped, once process_all has
\* returned every job that was 'waiting' has reached 'complete' or 'error',
\* and exactly one batch_complete record was emitted whose summary has
\* processed + errors equal to the number of waiting jobs.
C1_SchedulerLiveness ==
    main_pc = "finished" =>
        /\ \A j \in WaitingJobs : Terminal(j)
        /\ NumType("batch_complete") = 1
        /\ Summary.type = "batch_complete"
        /\ Summary.processed + Summary.errors = Cardinality(WaitingJobs)

\* ---- C2 ---------------------------------------------------------------
\* C2: while the pause flag is set, no step of any worker removes a job from
\* the work queue.
C2_PauseHaltsDequeues == [][is_paused => taken' = taken]_vars

\* ---- C3 ---------------------------------------------------------------
\* Every job enqueued at start is, at any moment, either still once in the
\* queue or was handed to exactly one worker exactly once.
NoLossNoDuplication ==
    \A j \in Jobs :
        InQueue(j) + taken[j] =
            (IF j \in WaitingJobs /\ main_pc # "start" THEN 1 ELSE 0)

\* C3: under any sequence of pause() and resume() calls (no stop()), a step
\* that sets or clears the pause flag leaves the work queue as it was, no job
\* is lost or handed out twice, and if from some point on the scheduler is
\* no longer paused every waiting job reaches 'complete' or 'error'.
C3_PauseResumeNoLoss ==
    /\ []NoLossNoDuplication
    /\ [][is_paused' # is_paused => file_queue' = file_queue]_vars
    /\ (<>[](~is_paused)) => <>(\A j \in WaitingJobs : Terminal(j))

\* Paused in mid-batch: a worker is parked in the pause loop, one job was
\* handed out exactly once and another still waits in the queue.
C3_Witness ==
    /\ is_paused
    /\ \E w \in Workers : wpc[w] = "pause_run"
    /\ \E j \in Jobs : taken[j] = 1
    /\ file_queue # <<>>

\* ---- C4 ---------------------------------------------------------------
\* C4: once stop() has cleared the running flag of a running batch, no step
\* of any worker dequeues another job.
C4_StopPreventsDequeues ==
    [][(main_pc = "wait" /\ ~is_running) => taken' = taken]_vars

\* ---- C5 ---------------------------------------------------------------
\* A worker's thread returns only from the loop condition or from the
\* empty-queue check, never out of a file's pipeline.
ExitsOnlyFromLoop ==
    \A w \in Workers :
        (wpc[w] # "done" /\ wpc'[w] = "done") => wpc[w] \in {"top", "empty_chk"}

\* C5: a job in whose pipeline an exception was raised has, once its worker
\* has left it, exactly one 'error' record and 'error' as its last status; a
\* job in whose pipeline none was raised has its one 'complete' record, no
\* 'error' record and 'complete' as its last status, whatever happened to
\* the other jobs; and no worker's thread ends inside a file's pipeline.
C5_FailureIsolation ==
    /\ [](\A j \in Jobs :
            (taken[j] > 0 /\ ~Held(j)) =>
                IF j \in raised
                THEN /\ NumRecords("error", j) = 1
                     /\ LastStatus(j) = "error"
                ELSE /\ NumRecords("complete", j) = 1
                     /\ NumRecords("error", j) = 0
                     /\ LastStatus(j) = "complete")
    /\ [][ExitsOnlyFromLoop]_vars

\* The only worker started so far took a job whose pipeline raised, pushed
\* the error, and then took and completed the next job.
C5_Witness ==
    \E w \in Workers : \E j, k \in Jobs :
        /\ \A v \in Workers \ {w} : wpc[v] = "idle"
        /\ j \in raised /\ k \notin raised
        /\ NumRecords("error", j) = 1
        /\ reported[j] = <<"processing", "error">>
        /\ reported[k] = <<"processing", "complete">>
        /\ wpc[w] = "top"

\* ---- C6 ---------------------------------------------------------------
\* C6: the statuses reported for a job only move forward through
\* processing and then complete or error, and a job has at most one result
\* record, exactly one once its worker has left it.
C6_OneTerminalOutcome ==
    \A j \in Jobs :
        /\ ForwardOnly(reported[j])
        /\ NumRecords("complete", j) + NumRecords("error", j) <= 1
        /\ (taken[j] > 0 /\ ~Held(j)) =>
               NumRecords("complete", j) + NumRecords("error", j) = 1

\* ---- C7 ---------------------------------------------------------------
\* C7: the batch_complete record is in the result queue exactly when
\* process_all has returned, there is one of it, it is the last record, and
\* at that time every worker has exited, holds no job, and no job's last
\* reported status is 'processing'.
C7_BatchCompleteOrdering ==
    /\ NumType("batch_complete") = (IF main_pc = "finished" THEN 1 ELSE 0)
    /\ BatchEmitted =>
          /\ Summary.type = "batch_complete"
          /\ \A w \in Workers : wpc[w] = "done" /\ cur[w] = 0
          /\ \A j \in Jobs : LastStatus(j) # "processing"

\* The batch is complete and both per-file records precede the summary.
C7_Witness ==
    /\ main_pc = "finished"
    /\ Len(result_queue) >= 3
    /\ Summary.type = "batch_complete"

\* ---- C8 ---------------------------------------------------------------
\* C8: the summary's processed and errors equal the numbers of 'complete'
\* and 'error' records pushed, and total_files is the size of file_dict.
C8_SummaryExact ==
    main_pc = "finished" =>
        /\ Summary.processed = NumType("complete")
        /\ Summary.errors = NumType("error")
        /\ Summary.total_files = NumJobs

\* ======================================================================
\* Part 2: PDFAnalyzer.analyze and the findings it collects
\* ======================================================================

\* ---- the documents analysed -------------------------------------------
\* Page boxes are [left, bottom, right, top] in points; <<>> is a box the
\* page dictionary does not have.  Rotate is what page.get('/Rotate', 0)
\* returns.
NoBox == <<>>
BoxMedia == <<0, 0, 100, 100>>
BoxTrimWide == <<9, 9, 91, 91>>
BoxTrimNarrow == <<5, 9, 91, 91>>
BoxInner == <<5, 5, 95, 95>>

PageDict(media, crop, bleed, trim) ==
    [MediaBox |-> media, CropBox |-> crop, BleedBox |-> bleed, TrimBox |-> trim,
     Rotate |-> 0]

\* The page dictionaries of the analysed documents: a page without MediaBox,
\* a page with MediaBox only, pages whose TrimBox lies 9 pt (3.175 mm) or
\* 5 pt (1.76 mm) inside the MediaBox, and a page whose TrimBox equals its
\* BleedBox.
PageDicts ==
    { PageDict(NoBox, NoBox, NoBox, NoBox),
      PageDict(BoxMedia, NoBox, NoBox, NoBox),
      PageDict(BoxMedia, NoBox, NoBox, BoxTrimWide),
      PageDict(BoxMedia, NoBox, NoBox, BoxTrimNarrow),
      PageDict(BoxMedia, NoBox, BoxInner, BoxInner) }

PdfPages == UNION {[1..n -> PageDicts] : n \in 1..MaxPages}

\* Rule names of a profile, as the characters they are written with.
RuleFonts == <<"f", "o", "n", "t">>
RuleDpi == <<"d", "p", "i">>
RuleBleed == <<"B", "l", "E", "E", "D", "s">>
ProfileRules == <<RuleFonts, RuleDpi, RuleBleed>>

Buckets == {"passed", "failed", "warnings", "info"}

\* The verdicts current_profile.check can return: every rule of the profile
\* lands in one bucket.
Verdicts == [1..Len(ProfileRules) -> Buckets]

\* ---- pure functions ----------------------------------------------------
\* utils.points_to_mm: points * 25.4 / 72.  Lengths in millimetres are kept
\* in units of 1/360 mm, in which the conversion is exact: p * 127.
PointsToMm(p) == p * 127

\* Config.STANDARD_BLEED_SIZE, 3.0 mm, in units of 1/360 mm.
STANDARD_BLEED_SIZE == 1080

Min2(a, b) == IF a < b THEN a ELSE b

\* sorted(list(set(...))) of numbers.
RECURSIVE SortedList(_)
SortedList(S) ==
    IF S = {} THEN <<>>
    ELSE LET m == CHOOSE x \in S : \A y \in S : x <= y
         IN  <<m>> \o SortedList(S \ {m})

\* str.lower() on the characters rule names are written with.
LowerChar(c) ==
    CASE c = "B" -> "b" [] c = "L" -> "l" [] c = "E" -> "e" [] c = "D" -> "d"
      [] OTHER -> c
Lower(name) == [i \in 1..Len(name) |-> LowerChar(name[i])]

\* sub in s
Contains(s, sub) ==
    \E k \in 0..(Len(s) - Len(sub)) : SubSeq(s, k + 1, k + Len(sub)) = sub

\* 'bleed' not in rule_name.lower()
NotBleedRule(name) == ~Contains(Lower(name), <<"b", "l", "e", "e", "d">>)

\* One entry of the issues list.  pages and rule are <<>> where the code's
\* dict has no such key.
Finding(type, severity, pgs, rule) ==
    [type |-> type, severity |-> severity, pages |-> pgs, rule |-> rule]

\* ---- PDFAnalyzer._analyze_pages ------------------------------------------
\* Faulty variant of the display size: the rotation is not looked at.
DisplaySizeUnrotated(width_mm, height_mm, rotation) == <<width_mm, height_mm>>

\* The size a page is displayed with: width and height change places for a
\* rotation of 90 or 270 degrees.
DisplaySize(width_mm, height_mm, rotation) ==
    IF rotation \in {90, 270} THEN <<height_mm, width_mm>>
    ELSE <<width_mm, height_mm>>

\* The record of one page: the boxes are resolved (CropBox falls back to
\* MediaBox; BleedBox and TrimBox fall back to CropBox), and the four bleed
\* margins and their minimum are computed where TrimBox and BleedBox differ.
PageInfo(page, page_num) ==
    LET mediabox == page.MediaBox
        cropbox  == IF page.CropBox # NoBox THEN page.CropBox ELSE mediabox
        bleedbox == IF page.BleedBox # NoBox THEN page.BleedBox ELSE cropbox
        trimbox  == IF page.TrimBox # NoBox THEN page.TrimBox ELSE cropbox
        has      == trimbox # NoBox /\ bleedbox # NoBox /\ trimbox # bleedbox
        left     == PointsToMm(trimbox[1] - bleedbox[1])
        bottom   == PointsToMm(trimbox[2] - bleedbox[2])
        right    == PointsToMm(bleedbox[3] - trimbox[3])
        top      == PointsToMm(bleedbox[4] - trimbox[4])
        display  == DisplaySize(PointsToMm(mediabox[3] - mediabox[1]),
                                PointsToMm(mediabox[4] - mediabox[2]),
                                page.Rotate)
    IN  [page_number |-> page_num,
         display_width_mm  |-> display[1],
         display_height_mm |-> display[2],
         rotation    |-> page.Rotate,
         has_bleed   |-> has,
         min_bleed   |-> IF has THEN Min2(Min2(left, bottom), Min2(right, top))
                         ELSE 0]

\* The loop over pdf.pages from page k on: a page without MediaBox gets no
\* record.
RECURSIVE AnalyzePagesFrom(_, _)
AnalyzePagesFrom(pdf, k) ==
    IF k > Len(pdf) THEN <<>>
    ELSE (IF pdf[k].MediaBox # NoBox THEN <<PageInfo(pdf[k], k)>> ELSE <<>>)
         \o AnalyzePagesFrom(pdf, k + 1)

AnalyzePages(pdf) == AnalyzePagesFrom(pdf, 1)

\* ---- PrintQualityChecker -------------------------------------------------
\* Faulty variant of the test: bleed of the standard size is not enough.
LacksBleedAtStandard(page_info) ==
    ~page_info.has_bleed \/ page_info.min_bleed <= STANDARD_BLEED_SIZE

\* process_bleed_info: a page lacks bleed when it has none or less than the
\* standard size.
LacksBleed(page_info) ==
    ~page_info.has_bleed \/ page_info.min_bleed < STANDARD_BLEED_SIZE

\* process_bleed_info: what it appends to self.warnings, from the page
\* records alone.
ProcessBleedInfo(pages_info) ==
    LET without == SelectSeq(pages_info, LacksBleed)
    IN  IF without = <<>> THEN <<>>
        ELSE <<Finding("insufficient_bleed", "info",
                       [i \in 1..Len(without) |-> without[i].page_number],
                       <<>>)>>

\* process_bleed_info: the bleed_info it returns.
BleedInfo(pages_info) ==
    LET without == SelectSeq(pages_info, LacksBleed)
    IN  [has_proper_bleed    |-> without = <<>>,
         pages_without_bleed |->
             [i \in 1..Len(without) |-> without[i].page_number]]

\* A page's content stream is the sequence of its operators with their
\* operands, "\n" where a line ends; operators on one line are separated
\* by blanks, and the stream begins and ends with white space.
\* re.search(rb'<colour>.*?1\s+OP', content), where '.' matches no line
\* end: one of the colour operators is followed on its line by "1 OP",
\* with which "1 OPM" begins as well.
ColourThenOP(content, colours) ==
    \E i, j \in 1..Len(content) :
        /\ i < j
        /\ content[i] \in colours
        /\ content[j] \in {"1 OP", "1 OPM"}
        /\ \A m \in (i + 1)..(j - 1) : content[m] # "\n"

\* check_overprint: what it appends to self.issues and to self.warnings for
\* the pages of a file, each with its content stream and with whether one
\* of its ExtGState dictionaries sets OP or op with OPM 1.
CheckOverprint(contents) ==
    LET scanned == {p \in 1..Len(contents) :
                       \E i \in 1..Len(contents[p].content) :
                           contents[p].content[i] \in {"1 OP", "1 op", "1 OPM"}}
        white   == {p \in scanned :
                       ColourThenOP(contents[p].content,
                                    {"0 0 0 0 k", "0 0 0 0 K"})}
        k_only  == {p \in scanned \ white :
                       ColourThenOP(contents[p].content,
                                    {"0 0 0 1 k", "0 0 0 1 K"})}
        with    == scanned \cup {p \in 1..Len(contents) : contents[p].extgstate}
        other   == with \ (white \cup k_only)
    IN  [issues   |->
             IF white = {} THEN <<>>
             ELSE <<Finding("white_overprint_detected", "error",
                            SortedList(white), <<>>)>>,
         warnings |->
             (IF k_only = {} THEN <<>>
              ELSE <<Finding("k_overprint_detected", "info",
                             SortedList(k_only), <<>>)>>)
             \o (IF other = {} THEN <<>>
                 ELSE <<Finding("overprint_detected", "warning",
                                SortedList(other), <<>>)>>)]

\* ---- PDFAnalyzer._check_issues -------------------------------------------
\* round() of a length kept in units of 1/360 mm, to whole millimetres:
\* to the nearest, and to the even one half-way between two.
RoundMm(u) ==
    LET q == u \div 360
        r == u % 360
    IN  IF r < 180 THEN q
        ELSE IF r > 180 THEN q + 1
        ELSE IF q % 2 = 0 THEN q ELSE q + 1

\* The page-size step of the rule engine: the pages are grouped by rounded
\* display size in the order the sizes are first seen, max() takes the
\* first of the largest groups, and the pages of the other groups are
\* listed group by group in one finding.
PageSizeIssues(pages_info) ==
    LET n        == Len(pages_info)
        key(i)   == <<RoundMm(pages_info[i].display_width_mm),
                      RoundMm(pages_info[i].display_height_mm)>>
        first(i) == CHOOSE f \in 1..i :
                        key(f) = key(i) /\ \A g \in 1..(f - 1) : key(g) # key(i)
        size(f)  == Cardinality({i \in 1..n : first(i) = f})
        firsts   == {first(i) : i \in 1..n}
        common   == CHOOSE f \in firsts :
                        \A g \in firsts :
                            size(g) < size(f) \/ (size(g) = size(f) /\ f <= g)
        others   == SortedList({first(i) * (n + 1) + i :
                                    i \in {j \in 1..n : first(j) # common}})
    IN  IF n = 0 \/ others = <<>> THEN <<>>
        ELSE <<Finding("page_size_inconsistent", "warning",
                       [k \in 1..Len(others) |->
                           pages_info[others[k] % (n + 1)].page_number],
                       <<>>)>>

\* The RGB-only step of the rule engine.
CheckIssues(rgb_only) ==
    IF rgb_only THEN <<Finding("rgb_only", "warning", <<>>, <<>>)>> ELSE <<>>

\* ---- PDFAnalyzer._add_preflight_issues -----------------------------------
\* The rule names of one bucket of a verdict, in profile order.
Bucket(verdict, b) ==
    LET idx == SelectSeq([i \in 1..Len(ProfileRules) |-> i],
                         LAMBDA i : verdict[i] = b)
    IN  [k \in 1..Len(idx) |-> ProfileRules[idx[k]]]

PreflightFindings(names, type, severity) ==
    [k \in 1..Len(names) |-> Finding(type, severity, <<>>, names[k])]

\* One finding per failed rule and per info rule whose name does not contain
\* 'bleed', and one per warning rule.
AddPreflightIssues(verdict) ==
    PreflightFindings(SelectSeq(Bucket(verdict, "failed"), NotBleedRule),
                      "preflight_failed", "error")
    \o PreflightFindings(Bucket(verdict, "warnings"),
                         "preflight_warning", "warning")
    \o PreflightFindings(SelectSeq(Bucket(verdict, "info"), NotBleedRule),
                         "preflight_info", "info")

\* ---- PDFAnalyzer._analyze_fonts ------------------------------------------
\* Font names are sequences of tokens: a token is a stretch of characters
\* the code looks for as a whole, or a stretch it looks for nothing in.
\* "(ko:embedded)" and "(ko:not embedded)" stand for the Korean markers.
StandardFonts ==
    { <<"Times-Roman">>, <<"Times-Bold">>, <<"Times-Italic">>,
      <<"Times-BoldItalic">>, <<"Helvetica">>, <<"Helvetica-Bold">>,
      <<"Helvetica-Oblique">>, <<"Helvetica-BoldOblique">>, <<"Courier">>,
      <<"Courier-Bold">>, <<"Courier-Oblique">>, <<"Courier-BoldOblique">>,
      <<"Symbol">>, <<"ZapfDingbats">> }

\* str.lower() on the tokens font names are written with.
LowerToken(t) ==
    CASE t = "(Not Embedded)" -> "(not embedded)"
      [] t = "(Embedded)" -> "(embedded)"
      [] OTHER -> t
LowerName(name) == [i \in 1..Len(name) |-> LowerToken(name[i])]

\* One entry of fitz_page.get_fonts(), with the page it is on and what the
\* page's font resource of the same BaseFont says: ext is font_data[1],
\* basename font_data[3], fontname font_data[4]; fontfile tells whether the
\* resource has a FontDescriptor with a FontFile, FontFile2 or FontFile3.
FontData(ext, basename, fontname, fontfile, page) ==
    [ext |-> ext, basename |-> basename, fontname |-> fontname,
     fontfile |-> fontfile, page |-> page]

\* Faulty variant of the standard-font step: the list is not consulted.
StandardEmbeddedSkipped(basename, embedded) == embedded

\* "if basename in standard_fonts: font_info['embedded'] = True"
StandardEmbedded(basename, embedded) ==
    IF basename \in StandardFonts THEN TRUE ELSE embedded

\* The font_info record of one entry.
FontInfo(fd) ==
    LET subset == Contains(fd.basename, <<"+">>)
        e_ext  == fd.ext # ""
        e_sub  == IF subset THEN TRUE ELSE e_ext
        e_mark == IF \/ Contains(fd.fontname, <<"(ko:embedded)">>)
                     \/ Contains(LowerName(fd.fontname), <<"(embedded)">>)
                  THEN TRUE
                  ELSE IF \/ Contains(fd.fontname, <<"(ko:not embedded)">>)
                          \/ Contains(LowerName(fd.fontname), <<"(not embedded)">>)
                       THEN FALSE
                       ELSE e_sub
        e_std  == StandardEmbedded(fd.basename, e_mark)
        e_desc == IF ~e_std /\ fd.fontfile THEN TRUE ELSE e_std
    IN  [page        |-> fd.page,
         name        |-> fd.fontname,
         embedded    |-> e_desc,
         subset      |-> subset,
         base_font   |-> fd.basename,
         is_standard |-> fd.basename \in StandardFonts]

\* fonts_info[key] = font_info on a dict kept as a sequence of entries in
\* insertion order: a key already present keeps its place.
DictPut(d, key, value) ==
    IF \E i \in 1..Len(d) : d[i].key = key
    THEN [i \in 1..Len(d) |->
             IF d[i].key = key THEN [key |-> key, value |-> value] ELSE d[i]]
    ELSE Append(d, [key |-> key, value |-> value])

\* The loop over the fonts; the key is f"{fontname}_{page_num}".
RECURSIVE AnalyzeFontsFrom(_, _, _)
AnalyzeFontsFrom(fitz_fonts, k, fonts_info) ==
    IF k > Len(fitz_fonts) THEN fonts_info
    ELSE AnalyzeFontsFrom(fitz_fonts, k + 1,
             DictPut(fonts_info,
                     <<fitz_fonts[k].fontname, fitz_fonts[k].page>>,
                     FontInfo(fitz_fonts[k])))

\* _analyze_fonts; when the scan raises on the first page the except branch
\* returns the empty dict.
AnalyzeFonts(fitz_fonts, raises) ==
    IF raises THEN <<>> ELSE AnalyzeFontsFrom(fitz_fonts, 1, <<>>)

\* Faulty variant of the font step: one finding per offending font record.
FontIssuesPerRecord(fonts_info) ==
    LET bad == SelectSeq(fonts_info,
                   LAMBDA e : ~e.value.embedded /\ ~e.value.is_standard)
    IN  [k \in 1..Len(bad) |->
            [type     |-> "font_not_embedded",
             severity |-> "error",
             pages    |-> <<bad[k].value.page>>,
             rule     |-> <<>>,
             fonts    |-> <<bad[k].value.base_font>>]]

\* _check_issues, font embedding: the fonts neither embedded nor standard,
\* by base_font in first-seen order, in one finding.
FontIssues(fonts_info) ==
    LET bad   == SelectSeq(fonts_info,
                     LAMBDA e : ~e.value.embedded /\ ~e.value.is_standard)
        names == {bad[i].value.base_font : i \in 1..Len(bad)}
        first(n) == CHOOSE i \in 1..Len(bad) :
                        /\ bad[i].value.base_font = n
                        /\ \A j \in 1..(i - 1) : bad[j].value.base_font # n
        firsts == SortedList({first(n) : n \in names})
    IN  IF bad = <<>> THEN <<>>
        ELSE <<[type     |-> "font_not_embedded",
                severity |-> "error",
                pages    |-> SortedList({bad[i].value.page : i \in 1..Len(bad)}),
                rule     |-> <<>>,
                fonts    |-> [k \in 1..Len(firsts) |->
                                 bad[firsts[k]].value.base_font]]>>

\* ---- PDFAnalyzer._analyze_images -----------------------------------------
\* Config.MIN_IMAGE_DPI, WARNING_IMAGE_DPI and OPTIMAL_IMAGE_DPI (72, 150
\* and 300 DPI).  Resolutions are kept in hundredths of a DPI, rounded
\* down, which leaves every comparison with a threshold as it is.
MIN_IMAGE_DPI == 7200
WARNING_IMAGE_DPI == 15000
OPTIMAL_IMAGE_DPI == 30000

\* Faulty variant of the classification: a resolution at a threshold falls
\* into the category below it.
ResolutionCategoryInclusive(dpi) ==
    IF dpi <= MIN_IMAGE_DPI THEN "critical"
    ELSE IF dpi <= WARNING_IMAGE_DPI THEN "warning"
    ELSE IF dpi <= OPTIMAL_IMAGE_DPI THEN "acceptable"
    ELSE "optimal"

\* The if/elif chain on img_data['dpi'].
ResolutionCategory(dpi) ==
    IF dpi < MIN_IMAGE_DPI THEN "critical"
    ELSE IF dpi < WARNING_IMAGE_DPI THEN "warning"
    ELSE IF dpi < OPTIMAL_IMAGE_DPI THEN "acceptable"
    ELSE "optimal"

\* The loop over the images from image k on.  img.w and img.h are img[2]
\* and img[3], img.pix_w and img.pix_h the size of the Pixmap; raises_at
\* is the image whose Pixmap cannot be made (0: none), where the loop ends
\* in the except branch with what was collected.
RECURSIVE AnalyzeImagesFrom(_, _, _, _)
AnalyzeImagesFrom(imgs, k, raises_at, image_info) ==
    IF k > Len(imgs) THEN image_info
    ELSE
        LET counted  == [image_info EXCEPT !.total_count = @ + 1]
            img      == imgs[k]
            computed == img.w > 0 /\ img.h > 0
            dpi      == IF computed
                        THEN Min2((img.pix_w * 7200) \div img.w,
                                  (img.pix_h * 7200) \div img.h)
                        ELSE 0
            cat      == IF computed THEN ResolutionCategory(dpi) ELSE ""
            img_data == [page |-> img.page, dpi |-> dpi,
                         resolution_category |-> cat]
            sorted   == IF computed
                        THEN [counted EXCEPT
                                 !.resolution_categories[cat] = @ + 1,
                                 !.low_resolution_count =
                                     IF cat = "critical" THEN @ + 1 ELSE @]
                        ELSE counted
        IN  IF k = raises_at THEN counted
            ELSE AnalyzeImagesFrom(imgs, k + 1, raises_at,
                     [sorted EXCEPT !.images = Append(@, img_data)])

AnalyzeImages(imgs, raises_at) ==
    AnalyzeImagesFrom(imgs, 1, raises_at,
        [total_count |-> 0, low_resolution_count |-> 0, images |-> <<>>,
         resolution_categories |->
             [critical |-> 0, warning |-> 0, acceptable |-> 0, optimal |-> 0]])

\* _check_issues, image resolution: one error finding for the images below
\* the minimum and one info finding for those in the warning category.
ImageIssues(image_info) ==
    LET imgs == image_info.images
        low  == {k \in 1..Len(imgs) :
                    imgs[k].dpi > 0 /\ imgs[k].dpi < MIN_IMAGE_DPI}
        warn == {k \in 1..Len(imgs) : imgs[k].resolution_category = "warning"}
    IN  (IF image_info.low_resolution_count > 0
         THEN <<Finding("low_resolution_image", "error",
                        SortedList({imgs[k].page : k \in low}), <<>>)>>
         ELSE <<>>)
        \o (IF image_info.resolution_categories.warning > 0
            THEN <<Finding("medium_resolution_image", "info",
                           SortedList({imgs[k].page : k \in warn}), <<>>)>>
            ELSE <<>>)

\* ---- PDFAnalyzer.analyze -------------------------------------------------
\* What analyze() reads from a file: the page dictionaries, the content
\* streams of the pages (that of the first page fills white and sets
\* overprint, or every page is without overprint), whether the colours are
\* RGB without CMYK, the entries of get_fonts() and of get_images() over
\* the pages, whether reading the fonts of the first page raises, and the
\* image whose Pixmap cannot be made (0: none).  collected tells whether
\* the interpreter finalises a Document object nothing refers to any more
\* before analyze() returns, which is up to the interpreter.
PlainDoc(pdf, white, rgb_only) ==
    [pdf |-> pdf,
     contents |-> [k \in 1..Len(pdf) |->
                      [content   |-> IF white /\ k = 1
                                     THEN <<"0 0 0 0 k", "1 OP">> ELSE <<>>,
                       extgstate |-> FALSE]],
     rgb_only |-> rgb_only, fitz_fonts |-> <<>>,
     images |-> <<>>, pixmap_raises_at |-> 0, fonts_raise |-> FALSE,
     collected |-> FALSE]

\* The handles of the extractors that their own code has not closed when
\* they return: doc_fitz.close() and doc.close() are the last statements
\* of the try bodies, which an exception leaves before.
UnclosedHandles(d) ==
    IF d.collected THEN {}
    ELSE (IF d.fonts_raise THEN {"_analyze_fonts.doc_fitz"} ELSE {})
         \cup (IF d.pixmap_raises_at \in 1..Len(d.images)
                THEN {"_analyze_images.doc"} ELSE {})

\* _check_issues: the rule engine's findings in the order of its steps.
CheckIssuesAll(pages_info, fonts_info, rgb_only, image_info) ==
    PageSizeIssues(pages_info) \o FontIssues(fonts_info) \o CheckIssues(rgb_only)
    \o ImageIssues(image_info)

\* analyze() up to and including _check_issues: the pages and the fonts
\* are analysed, check_all runs the print-quality checks, which append to
\* the checker's own lists, every entry of those lists is appended to the
\* fresh issues list of this analysis, and the rule engine appends its
\* findings.
MeasureDoc(d) ==
    /\ an_pc = "idle"
    /\ analyses < MaxAnalyses
    /\ analyses' = analyses + 1
    /\ pages' = AnalyzePages(d.pdf)
    /\ fonts' = AnalyzeFonts(d.fitz_fonts, d.fonts_raise)
    /\ handles' = {"analyze.local_pdf"} \cup UnclosedHandles(d)
    /\ images' = AnalyzeImages(d.images, d.pixmap_raises_at)
    /\ pqc_issues' = pqc_issues \o CheckOverprint(d.contents).issues
    /\ pqc_warnings' = pqc_warnings \o CheckOverprint(d.contents).warnings
                                    \o ProcessBleedInfo(pages')
    /\ print_quality' = BleedInfo(pages')
    /\ issues' = pqc_issues' \o pqc_warnings'
                 \o CheckIssuesAll(pages', fonts', d.rgb_only, images')
    /\ an_pc' = "measured"
    /\ doc' = d
    /\ preflight_result' = <<>>
    /\ overall_status' = ""
    /\ UNCHANGED <<schedVars, pipeVars>>

Measure(pdf, white, rgb_only) == MeasureDoc(PlainDoc(pdf, white, rgb_only))

\* analyze() called for a file of the batch.
AnalyzeMeasure(pdf, white, rgb_only) ==
    /\ Measure(pdf, white, rgb_only)
    /\ UNCHANGED result_before

\* What the steps after _check_issues leave alone.
measuredVars == <<pqc_issues, pqc_warnings, analyses, pages, doc, fonts,
                  images,
                  print_quality>>

\* ---- PreflightProfile.check ----------------------------------------------
\* Faulty variant of the reduction: an info entry counts as a warning.
OverallStatusInfoCounts(verdict) ==
    IF \E r \in DOMAIN verdict : verdict[r] = "failed" THEN "fail"
    ELSE IF \E r \in DOMAIN verdict : verdict[r] \in {"warnings", "info"}
         THEN "warning" ELSE "pass"

\* The overall_status the profile check stores in its result: fail with a
\* failed rule, else warning with a warning rule, else pass.
OverallStatus(verdict) ==
    IF \E r \in DOMAIN verdict : verdict[r] = "failed" THEN "fail"
    ELSE IF \E r \in DOMAIN verdict : verdict[r] = "warnings" THEN "warning"
         ELSE "pass"

\* analyze() from the profile check on: the verdict is merged into the
\* issues list and the result is returned.
Preflight(verdict) ==
    /\ an_pc = "measured"
    /\ preflight_result' = verdict
    /\ overall_status' = OverallStatus(verdict)
    /\ handles' = handles \ {"analyze.local_pdf"}
    /\ issues' = issues \o AddPreflightIssues(verdict)
    /\ an_pc' = "idle"
    /\ UNCHANGED <<schedVars, pipeVars, measuredVars, result_before>>

AnalyzePreflight(verdict) == result_before = <<>> /\ Preflight(verdict)

\* PDFAnalyzer(): the next file of the batch gets an analyzer of its own,
\* with a PrintQualityChecker of its own.
NewAnalyzer ==
    /\ an_pc = "idle"
    /\ analyses > 0
    /\ pqc_issues' = <<>>
    /\ pqc_warnings' = <<>>
    /\ issues' = <<>>
    /\ pages' = <<>>
    /\ analyses' = 0
    /\ doc' = <<>>
    /\ preflight_result' = <<>>
    /\ result_before' = <<>>
    /\ fonts' = <<>>
    /\ overall_status' = ""
    /\ images' = <<>>
    /\ print_quality' = <<>>
    /\ handles' = {}
    /\ UNCHANGED <<schedVars, pipeVars, an_pc>>

\* The analyzer of one file, the scheduler left aside.
InitAnalyze ==
    /\ InitSched
    /\ file_dict = [j \in Jobs |-> "waiting"]
    /\ InitAnIdle

NextAnalyze ==
    \/ \E pdf \in PdfPages : \E white, rgb_only \in BOOLEAN :
           AnalyzeMeasure(pdf, white, rgb_only)
    \/ \E verdict \in Verdicts : AnalyzePreflight(verdict)
    \/ NewAnalyzer

SpecAnalyze == InitAnalyze /\ [][NextAnalyze]_vars

\* ---- what the claims on the findings speak of ---------------------------

\* Number of entries of the issues list with the given type.
NumIssues(type) == Cardinality({i \in 1..Len(issues) : issues[i].type = type})

\* analyze() has returned a result.
Analysed == an_pc = "idle" /\ analyses > 0

\* C9: in the issues list of an analysed document, once the print-quality
\* findings, the rule-engine findings and the profile findings have been
\* appended, no two findings have the same type.
C9_FindingTypeUniqueness ==
    Analysed => \A i, j \in 1..Len(issues) :
                    i # j => issues[i].type # issues[j].type

\* C10: the issues list of an analysed document holds at most one
\* 'insufficient_bleed' finding, the one process_bleed_info made from the
\* page records of that analysis; the rule engine and the merge add none.
C10_BleedSingleOwnership ==
    Analysed =>
        /\ NumIssues("insufficient_bleed") <= 1
        /\ \A i \in 1..Len(issues) :
               issues[i].type = "insufficient_bleed" =>
                   <<issues[i]>> = ProcessBleedInfo(pages)

\* ---- C11 --------------------------------------------------------------
\* The rules of the profile whose name contains 'bleed' in some letter case.
BleedRules == {RuleBleed}

\* Number of findings of the given type and severity made for a rule.
NumRuleFindings(name, type, severity) ==
    Cardinality({i \in 1..Len(issues) :
                    /\ issues[i].rule = name
                    /\ issues[i].type = type
                    /\ issues[i].severity = severity})

\* Number of findings made for a rule.
NumForRule(name) ==
    Cardinality({i \in 1..Len(issues) : issues[i].rule = name})

\* C11: after the profile verdict was merged, a rule whose name contains
\* 'bleed' has no finding whichever bucket it is in, and every other rule
\* has exactly one finding if it is in the failed, warnings or info bucket
\* (preflight_failed/error, preflight_warning/warning, preflight_info/info)
\* and none if it passed.
C11_BleedRuleExclusion ==
    Analysed =>
        \A r \in 1..Len(ProfileRules) :
            LET name == ProfileRules[r]
                b    == preflight_result[r]
            IN  IF name \in BleedRules
                THEN NumForRule(name) = 0
                ELSE /\ NumForRule(name) = (IF b = "passed" THEN 0 ELSE 1)
                     /\ b = "failed" =>
                            NumRuleFindings(name, "preflight_failed", "error") = 1
                     /\ b = "warnings" =>
                            NumRuleFindings(name, "preflight_warning", "warning") = 1
                     /\ b = "info" =>
                            NumRuleFindings(name, "preflight_info", "info") = 1

\* ---- the re-scan of the batch ------------------------------------------
\* _process_single_file keeps the first result and calls analyze() again on
\* the same analyzer.  Here the file it re-scans is the document of the
\* first call, unmodified, and the profile returns the verdict it returned
\* before.  result_before is <<issues, preflight_result>> of the first result.
RescanMeasure ==
    /\ analyses = 1
    /\ result_before = <<>>
    /\ result_before' = <<issues, preflight_result>>
    /\ MeasureDoc(doc)

RescanPreflight ==
    /\ result_before # <<>>
    /\ Preflight(result_before[2])

\* One file of the batch: the scan, the re-scan, and the next file's analyzer.
NextRescan ==
    \/ \E pdf \in PdfPages : \E white, rgb_only \in BOOLEAN :
           analyses = 0 /\ AnalyzeMeasure(pdf, white, rgb_only)
    \/ \E verdict \in Verdicts : AnalyzePreflight(verdict)
    \/ RescanMeasure
    \/ RescanPreflight
    \/ NewAnalyzer

SpecRescan == InitAnalyze /\ [][NextRescan]_vars

\* ---- C12 --------------------------------------------------------------
\* C12: the issues list of the second analysis of an unmodified document,
\* made with the same inputs on the analyzer of the first, is the issues
\* list of the first analysis.
C12_AnalysisIdempotent ==
    (Analysed /\ result_before # <<>>) => issues = result_before[1]

\* ---- the fonts of the analysed documents --------------------------------
MaxFonts == 2

\* A standard name, a plain name and a subset name (tag, '+', name).
FontBaseNames == { <<"Helvetica">>, <<"Arial">>, <<"ABCDEF", "+", "Arial">> }

\* Resource names without marker and with the markers the code looks for.
FontNames ==
    { <<"F1">>, <<"F1", "(Embedded)">>, <<"F1", "(Not Embedded)">>,
      <<"F1", "(ko:not embedded)">> }

FitzFonts ==
    { FontData(ext, basename, fontname, fontfile, 1) :
          ext \in {"", "ttf"}, basename \in FontBaseNames,
          fontname \in FontNames, fontfile \in BOOLEAN }

FontLists == UNION {[1..n -> FitzFonts] : n \in 1..MaxFonts}

\* A one-page document with enough bleed, and one way to add fonts to it.
OnePagePdf == <<PageDict(BoxMedia, NoBox, NoBox, BoxTrimWide)>>
FontDoc(fitz_fonts) ==
    [PlainDoc(OnePagePdf, FALSE, FALSE) EXCEPT !.fitz_fonts = fitz_fonts]

\* A verdict in which every rule of the profile passed.
AllPassed == [r \in 1..Len(ProfileRules) |-> "passed"]

\* One-page documents with fonts, each analysed by an analyzer of its own.
NextFonts ==
    \/ \E fitz_fonts \in FontLists :
           /\ analyses = 0
           /\ MeasureDoc(FontDoc(fitz_fonts))
           /\ UNCHANGED result_before
    \/ AnalyzePreflight(AllPassed)
    \/ NewAnalyzer

SpecFonts == InitAnalyze /\ [][NextFonts]_vars

\* The base fonts named by the font_not_embedded findings.
NotEmbeddedFonts ==
    UNION { {issues[i].fonts[k] : k \in 1..Len(issues[i].fonts)} :
                i \in {j \in 1..Len(issues) :
                          issues[j].type = "font_not_embedded"} }

\* ---- C13 --------------------------------------------------------------
\* C13: a font whose base_font is one of the 14 standard names has a font
\* record with embedded and is_standard true, whatever its extension, its
\* name marker and its font descriptor say, and no font_not_embedded
\* finding names it.
C13_StandardFontInvariant ==
    Analysed =>
        /\ \A i \in 1..Len(fonts) :
               fonts[i].value.base_font \in StandardFonts =>
                   fonts[i].value.embedded /\ fonts[i].value.is_standard
        /\ NotEmbeddedFonts \cap StandardFonts = {}

\* A standard font without extension, marked as not embedded and without
\* font file, was analysed.
C13_Witness ==
    /\ Analysed
    /\ \E k \in 1..Len(doc.fitz_fonts) :
           /\ doc.fitz_fonts[k].basename \in StandardFonts
           /\ doc.fitz_fonts[k].ext = ""
           /\ doc.fitz_fonts[k].fontname = <<"F1", "(Not Embedded)">>
           /\ ~doc.fitz_fonts[k].fontfile
    /\ \E i \in 1..Len(fonts) : fonts[i].value.base_font \in StandardFonts

\* ---- C14 --------------------------------------------------------------
\* C14: a font record classified as subset is embedded, whether or not its
\* name carries a not-embedded marker and whether or not its descriptor has
\* a font file.
C14_SubsetFontInvariant ==
    Analysed =>
        \A i \in 1..Len(fonts) : fonts[i].value.subset => fonts[i].value.embedded

\* ---- C15 --------------------------------------------------------------
\* C15: the overall_status of the verdict stored as preflight_result is
\* 'fail' exactly when the failed bucket is not empty, otherwise 'warning'
\* exactly when the warnings bucket is not empty, otherwise 'pass'; it is
\* one of the three, and the info bucket has no part in it.
C15_SeverityReduction ==
    Analysed =>
        LET failed   == Bucket(preflight_result, "failed")
            warnings == Bucket(preflight_result, "warnings")
        IN  /\ overall_status \in {"pass", "warning", "fail"}
            /\ overall_status = "fail" <=> failed # <<>>
            /\ overall_status = "warning" <=> (failed = <<>> /\ warnings # <<>>)
            /\ overall_status = "pass" <=> (failed = <<>> /\ warnings = <<>>)

\* A verdict with an info entry and neither failed nor warning entries was
\* stored, and its status is pass.
C15_Witness ==
    /\ Analysed
    /\ Bucket(preflight_result, "info") # <<>>
    /\ Bucket(preflight_result, "failed") = <<>>
    /\ Bucket(preflight_result, "warnings") = <<>>
    /\ overall_status = "pass"

\* ---- the page sizes of the analysed documents ---------------------------
MaxSizedPages == 3

\* Documents of A4 portrait (595 x 842 pt), A4 landscape and A3 landscape
\* (1191 x 842 pt) pages, each with any of the four rotations.
SizedPdfs ==
    LET sized == { [PageDict(<<0, 0, w[1], w[2]>>, NoBox, NoBox, NoBox)
                       EXCEPT !.Rotate = rot] :
                       w \in {<<595, 842>>, <<842, 595>>, <<1191, 842>>},
                       rot \in {0, 90, 180, 270} }
    IN  UNION {[1..n -> sized] : n \in 1..MaxSizedPages}

\* Documents of such pages, each analysed by an analyzer of its own.
NextPageSize ==
    \/ \E pdf \in SizedPdfs :
           /\ analyses = 0
           /\ MeasureDoc(PlainDoc(pdf, FALSE, FALSE))
           /\ UNCHANGED result_before
    \/ AnalyzePreflight(AllPassed)
    \/ NewAnalyzer

SpecPageSize == InitAnalyze /\ [][NextPageSize]_vars

\* ---- C16 --------------------------------------------------------------
\* The rounded display size of page k of the analysed document, from its
\* MediaBox and rotation: 595 pt are 210 mm, 842 pt 297 mm, 1191 pt 420 mm.
C16_Key(k) ==
    LET mm(p) == CASE p = 595 -> 210 [] p = 842 -> 297 [] p = 1191 -> 420
        box == doc.pdf[k].MediaBox
        w == mm(box[3] - box[1])
        h == mm(box[4] - box[2])
    IN  IF doc.pdf[k].Rotate \in {90, 270} THEN <<h, w>> ELSE <<w, h>>

\* The pages of the group of page k.
C16_Group(k) == {j \in 1..Len(doc.pdf) : C16_Key(j) = C16_Key(k)}

\* The baseline group: none is larger, and those as large are first seen
\* later.
C16_Baseline ==
    LET n == Len(doc.pdf)
        least(G) == CHOOSE x \in G : \A y \in G : x <= y
        b == CHOOSE k \in 1..n :
                 \A j \in 1..n :
                     \/ Cardinality(C16_Group(j)) < Cardinality(C16_Group(k))
                     \/ /\ Cardinality(C16_Group(j)) = Cardinality(C16_Group(k))
                        /\ least(C16_Group(k)) <= least(C16_Group(j))
    IN  C16_Group(b)

\* C16: the pages are grouped by rounded display size, width and height
\* changing places for a rotation of 90 or 270; the largest group, on a tie
\* the one first seen, is the baseline; when pages lie outside it there is
\* exactly one 'page_size_inconsistent' finding, a warning whose affected
\* pages are exactly those pages, and when there is one group there is none.
C16_PageSizeGrouping ==
    Analysed =>
        LET outside == (1..Len(doc.pdf)) \ C16_Baseline
        IN  /\ NumIssues("page_size_inconsistent")
                   = (IF outside = {} THEN 0 ELSE 1)
            /\ \A i \in 1..Len(issues) :
                   issues[i].type = "page_size_inconsistent" =>
                       /\ issues[i].severity = "warning"
                       /\ {issues[i].pages[k] : k \in 1..Len(issues[i].pages)}
                              = outside
                       /\ Len(issues[i].pages) = Cardinality(outside)

\* An A4 portrait page, an A4 landscape page rotated by 90 degrees and an
\* A3 page were analysed, and the finding names the A3 page alone.
C16_Witness ==
    /\ Analysed
    /\ Len(doc.pdf) = 3
    /\ doc.pdf[1].MediaBox = <<0, 0, 595, 842>> /\ doc.pdf[1].Rotate = 0
    /\ doc.pdf[2].MediaBox = <<0, 0, 842, 595>> /\ doc.pdf[2].Rotate = 90
    /\ doc.pdf[3].MediaBox = <<0, 0, 1191, 842>> /\ doc.pdf[3].Rotate = 0
    /\ \E i \in 1..Len(issues) :
           issues[i].type = "page_size_inconsistent" /\ issues[i].pages = <<3>>

\* ---- the images of the analysed documents -------------------------------
MaxImages == 2

\* Images 100 pt wide and high (w and h 7200: the Pixmap's size in pixels
\* is then the resolution in hundredths of a DPI) just below and at each
\* threshold in one direction and at 300 DPI in the other, and an image
\* without a width, for which no resolution is computed.  Any image of the
\* document, or none, is one whose Pixmap cannot be made.
ImageDocs ==
    LET at   == {MIN_IMAGE_DPI - 1, MIN_IMAGE_DPI, WARNING_IMAGE_DPI - 1,
                 WARNING_IMAGE_DPI, OPTIMAL_IMAGE_DPI - 1, OPTIMAL_IMAGE_DPI}
        kinds == {[w |-> 7200, h |-> 7200, pix_w |-> x,
                   pix_h |-> OPTIMAL_IMAGE_DPI, page |-> 1] : x \in at}
                 \cup {[w |-> 7200, h |-> 7200, pix_w |-> OPTIMAL_IMAGE_DPI,
                        pix_h |-> MIN_IMAGE_DPI - 1, page |-> 1],
                       [w |-> 0, h |-> 7200, pix_w |-> MIN_IMAGE_DPI,
                        pix_h |-> MIN_IMAGE_DPI, page |-> 1]}
        lists == UNION {[1..n -> kinds] : n \in 1..MaxImages}
    IN  { [PlainDoc(OnePagePdf, FALSE, FALSE) EXCEPT
              !.images = imgs, !.pixmap_raises_at = r] :
              imgs \in lists, r \in 0..MaxImages }

\* One-page documents with images, each analysed by an analyzer of its own.
NextImages ==
    \/ \E d \in ImageDocs :
           /\ d.pixmap_raises_at <= Len(d.images)
           /\ analyses = 0
           /\ MeasureDoc(d)
           /\ UNCHANGED result_before
    \/ AnalyzePreflight(AllPassed)
    \/ NewAnalyzer

SpecImages == InitAnalyze /\ [][NextImages]_vars

\* ---- C17 --------------------------------------------------------------
\* The images of the result that have a computed resolution, and those of
\* them in a category.
C17_Computed ==
    {k \in 1..Len(images.images) :
        doc.images[k].w > 0 /\ doc.images[k].h > 0}
C17_InCategory(cat) ==
    {k \in C17_Computed : images.images[k].resolution_category = cat}

\* C17: an image with a computed resolution d is in exactly one category:
\* critical exactly when d < MIN_IMAGE_DPI, warning when MIN <= d < WARNING,
\* acceptable when WARNING <= d < OPTIMAL, optimal when d >= OPTIMAL (so an
\* image at the minimum is not critical, one just below is); the counters
\* of the categories count these images, low_resolution_count is the
\* critical counter, and the four counters add up to the number of images
\* with a computed resolution.
C17_DpiCategorization ==
    Analysed =>
        LET cats == images.resolution_categories
        IN  /\ \A k \in C17_Computed :
                   LET d == images.images[k].dpi
                       c == images.images[k].resolution_category
                   IN  /\ d = Min2((doc.images[k].pix_w * 7200) \div doc.images[k].w,
                                   (doc.images[k].pix_h * 7200) \div doc.images[k].h)
                       /\ c = "critical" <=> d < MIN_IMAGE_DPI
                       /\ c = "warning" <=>
                              (MIN_IMAGE_DPI <= d /\ d < WARNING_IMAGE_DPI)
                       /\ c = "acceptable" <=>
                              (WARNING_IMAGE_DPI <= d /\ d < OPTIMAL_IMAGE_DPI)
                       /\ c = "optimal" <=> d >= OPTIMAL_IMAGE_DPI
            /\ \A c \in {"critical", "warning", "acceptable", "optimal"} :
                   cats[c] = Cardinality(C17_InCategory(c))
            /\ images.low_resolution_count = cats.critical
            /\ cats.critical + cats.warning + cats.acceptable + cats.optimal
                   = Cardinality(C17_Computed)

\* An image at the minimum and an image just below it were classified: the
\* first as warning, the second as critical.
C17_Witness ==
    /\ Analysed
    /\ \E j, k \in C17_Computed :
           /\ images.images[j].dpi = MIN_IMAGE_DPI
           /\ images.images[j].resolution_category = "warning"
           /\ images.images[k].dpi = MIN_IMAGE_DPI - 1
           /\ images.images[k].resolution_category = "critical"
    /\ images.low_resolution_count = 1

\* ---- process_bleed_info on page records ----------------------------------
\* process_bleed_info(pages_info) called on the checker of the analyzer,
\* with page records of any bleed.
ProcessBleedInfoCall(pages_info) ==
    /\ an_pc = "idle"
    /\ analyses < MaxAnalyses
    /\ analyses' = analyses + 1
    /\ pages' = pages_info
    /\ pqc_warnings' = pqc_warnings \o ProcessBleedInfo(pages_info)
    /\ print_quality' = BleedInfo(pages_info)
    /\ UNCHANGED <<schedVars, pipeVars, pqc_issues, issues, an_pc, doc,
                   preflight_result,
                   result_before, fonts, overall_status, images, handles>>

\* Page records without bleed and with a bleed just below, at and just
\* above the standard size, for up to MaxPages pages.
NextBleedInfo ==
    \/ \E n \in 0..MaxPages :
         \E bleed \in [1..n -> {0, STANDARD_BLEED_SIZE - 1, STANDARD_BLEED_SIZE,
                                STANDARD_BLEED_SIZE + 1}] :
             ProcessBleedInfoCall(
                 [k \in 1..n |-> [page_number |-> k,
                                  has_bleed   |-> bleed[k] > 0,
                                  min_bleed   |-> bleed[k]]])
    \/ NewAnalyzer

SpecBleedInfo == InitAnalyze /\ [][NextBleedInfo]_vars

\* ---- C18 --------------------------------------------------------------
\* C18: a call of process_bleed_info takes a page as insufficient exactly
\* when it has no bleed or its min_bleed is below STANDARD_BLEED_SIZE; with
\* such pages it emits exactly one 'insufficient_bleed' finding, of severity
\* info and listing exactly these pages, and has_proper_bleed is false;
\* without, it emits nothing and has_proper_bleed is true.  No
\* 'insufficient_bleed' finding has another severity than info.
C18_BleedInformationalOnly ==
    [][analyses' = analyses + 1 =>
          LET insufficient ==
                  {k \in 1..Len(pages') :
                      \/ ~pages'[k].has_bleed
                      \/ pages'[k].min_bleed < STANDARD_BLEED_SIZE}
              emitted == SubSeq(pqc_warnings', Len(pqc_warnings) + 1,
                                Len(pqc_warnings'))
          IN  /\ SubSeq(pqc_warnings', 1, Len(pqc_warnings)) = pqc_warnings
              /\ print_quality'.has_proper_bleed <=> insufficient = {}
              /\ Len(emitted) = (IF insufficient = {} THEN 0 ELSE 1)
              /\ \A i \in 1..Len(emitted) :
                     /\ emitted[i].type = "insufficient_bleed"
                     /\ emitted[i].severity = "info"
                     /\ emitted[i].pages
                            = SortedList({pages'[k].page_number : k \in insufficient})
              /\ \A i \in 1..Len(pqc_warnings') :
                     pqc_warnings'[i].type = "insufficient_bleed" =>
                         pqc_warnings'[i].severity = "info"]_vars

\* A page with bleed of exactly the standard size and a page with less
\* were processed: the finding lists the second page alone.
C18_Witness ==
    /\ analyses > 0
    /\ Len(pages) = 2
    /\ pages[1].has_bleed /\ pages[1].min_bleed = STANDARD_BLEED_SIZE
    /\ pages[2].has_bleed /\ pages[2].min_bleed = STANDARD_BLEED_SIZE - 1
    /\ ~print_quality.has_proper_bleed
    /\ pqc_warnings[Len(pqc_warnings)].pages = <<2>>

\* ---- C19 --------------------------------------------------------------
\* C19: analyze() returns a result with a pages list only for a document
\* whose pages all have a MediaBox, and that list has a record for every
\* page of the document (basic_info.page_count is len(pdf.pages)).
C19_MediaBoxRequired ==
    Analysed =>
        /\ \A k \in 1..Len(doc.pdf) : doc.pdf[k].MediaBox # NoBox
        /\ Len(pages) = Len(doc.pdf)
        /\ \A k \in 1..Len(doc.pdf) :
               \E i \in 1..Len(pages) : pages[i].page_number = k

\* ---- the scans that raise ------------------------------------------------
\* One-page documents with images, of which the font scan or the image scan
\* may raise, each analysed by an analyzer of its own.
NextHandles ==
    \/ \E d \in ImageDocs : \E fonts_raise, collected \in BOOLEAN :
           /\ d.pixmap_raises_at <= Len(d.images)
           /\ analyses = 0
           /\ MeasureDoc([d EXCEPT !.fonts_raise = fonts_raise,
                                   !.collected = collected])
           /\ UNCHANGED result_before
    \/ AnalyzePreflight(AllPassed)
    \/ NewAnalyzer

SpecHandles == InitAnalyze /\ [][NextHandles]_vars

\* ---- C20 --------------------------------------------------------------
\* C20: when analyze() has returned, every document handle the call opened
\* is closed, whether or not a scan raised on the way.
C20_ScopedHandles == Analysed => handles = {}

\* ======================================================================
\* Part 3: further claims on the scheduler and on one file's pipeline
\* ======================================================================

SpecCtlFair ==
    /\ Init /\ [][NextCtl]_vars
    /\ WF_vars(MainStep)
    /\ \A w \in Workers : WF_vars(WorkerStep(w))
    /\ WF_vars(StopClearPaused \/ StopDrain)

\* ---- C29 --------------------------------------------------------------
\* C29: once stop() has cleared the running flag of a running batch,
\* paused or not and whatever pause() and resume() calls follow, every
\* worker eventually exits and the batch_complete record is eventually
\* emitted; it is never emitted twice; and a job the drain removed stays
\* 'waiting', is never handed to a worker, has no result record and no
\* status reported.
C29_StopLeadsToShutdown ==
    /\ (ctl_pc = "stop_paused") ~>
           (main_pc = "finished" /\ \A w \in Workers : wpc[w] = "done")
    /\ [](NumType("batch_complete") = (IF main_pc = "finished" THEN 1 ELSE 0))
    /\ [](\A j \in drained :
              /\ file_dict[j] = "waiting"
              /\ taken[j] = 0
              /\ reported[j] = <<>>
              /\ \A i \in 1..Len(result_queue) : result_queue[i].file_id # j)

\* stop() has just cleared the running flag of a paused batch: a worker is
\* inside a pipeline, another is parked in the pause loop and a job is
\* still in the queue.
C29_Witness ==
    /\ ctl_pc = "stop_paused"
    /\ is_paused
    /\ file_queue # <<>>
    /\ \E w \in Workers : wpc[w] = "pause_run"
    /\ \E w \in Workers : wpc[w] = "pipeline"

\* ---- process_all on a bounded work queue ---------------------------------
\* The work queue is the caller's: here a queue.Queue(maxsize=QueueCapacity).
QueueCapacity == 1

\* process_all: self.is_running = True, before the enqueue loop.
ProcessAllBegin ==
    /\ main_pc = "start"
    /\ is_running' = TRUE
    /\ main_pc' = "enqueue"
    /\ UNCHANGED <<file_dict, file_queue, result_queue, is_paused, countVars,
                   wpc, cur, tmp, ctl_pc, reported, histVars, anVars,
                   pipeVars>>

\* One turn of the enqueue loop: put() of the next 'waiting' entry returns
\* when the queue has room and blocks while it has none; after the last
\* entry the pool is created.  No worker runs yet, so the entries put so
\* far are the ones in the queue.
EnqueuePut ==
    /\ main_pc = "enqueue"
    /\ IF Len(file_queue) = Len(WaitingFrom(1))
       THEN /\ main_pc' = "spawn"
            /\ UNCHANGED file_queue
       ELSE /\ Len(file_queue) < QueueCapacity
            /\ file_queue' = Append(file_queue,
                                    WaitingFrom(1)[Len(file_queue) + 1])
            /\ UNCHANGED main_pc
    /\ UNCHANGED <<file_dict, result_queue, flagVars, countVars, wpc, cur,
                   tmp, ctl_pc, reported, histVars, anVars,
                   pipeVars>>

NextBounded ==
    \/ ProcessAllBegin \/ EnqueuePut
    \/ SubmitWorker \/ MainJoin \/ CompleteProcessing
    \/ \E w \in Workers : WorkerRunStep(w)

\* The batch on the bounded queue, its threads scheduled fairly.
SpecBounded ==
    /\ Init /\ [][NextBounded]_vars
    /\ WF_vars(ProcessAllBegin \/ EnqueuePut \/ SubmitWorker \/ MainJoin
               \/ CompleteProcessing)
    /\ \A w \in Workers : WF_vars(WorkerRunStep(w))

\* ---- C30 --------------------------------------------------------------
\* C30: on a work queue of a capacity below the number of 'waiting' jobs,
\* process_all gets through its enqueue loop, every waiting job reaches
\* 'complete' or 'error', and the batch_complete record is emitted.
C30_StartDoesNotDeadlock ==
    /\ <>(main_pc \notin {"start", "enqueue"})
    /\ <>(\A j \in WaitingJobs : Terminal(j))
    /\ <>BatchEmitted

\* ---- fonts over the pages of a document ---------------------------------
\* Two-page documents whose fonts, with or without extension, have a
\* standard or one of two other base names, one of two resource names, no
\* font file, and are on either page; each is analysed by an analyzer of
\* its own.
NextFontPages ==
    \/ \E n \in 1..MaxFonts :
         \E fitz_fonts \in
                [1..n -> { FontData(ext, basename, fontname, FALSE, page) :
                               ext \in {"", "ttf"},
                               basename \in {<<"Helvetica">>, <<"Arial">>,
                                             <<"Verdana">>},
                               fontname \in {<<"F1">>, <<"F2">>},
                               page \in {1, 2} }] :
             /\ analyses = 0
             /\ MeasureDoc([FontDoc(fitz_fonts) EXCEPT
                               !.pdf = OnePagePdf \o OnePagePdf])
             /\ UNCHANGED result_before
    \/ AnalyzePreflight(AllPassed)
    \/ NewAnalyzer

SpecFontPages == InitAnalyze /\ [][NextFontPages]_vars

\* ---- C25 --------------------------------------------------------------
\* The font records that are neither embedded nor standard.
C25_Offending ==
    {i \in 1..Len(fonts) :
        ~fonts[i].value.embedded /\ ~fonts[i].value.is_standard}

\* C25: the issues list has a 'font_not_embedded' finding exactly when a
\* font record is neither embedded nor standard; there is then one such
\* finding, an error, whose fonts list holds the base font of every such
\* record once and whose affected pages are the pages of these records.
C25_FontAggregation ==
    Analysed =>
        /\ NumIssues("font_not_embedded")
               = (IF C25_Offending = {} THEN 0 ELSE 1)
        /\ \A i \in 1..Len(issues) :
               issues[i].type = "font_not_embedded" =>
                   /\ issues[i].severity = "error"
                   /\ {issues[i].fonts[k] : k \in 1..Len(issues[i].fonts)}
                          = {fonts[r].value.base_font : r \in C25_Offending}
                   /\ \A k, l \in 1..Len(issues[i].fonts) :
                          k # l => issues[i].fonts[k] # issues[i].fonts[l]
                   /\ {issues[i].pages[k] : k \in 1..Len(issues[i].pages)}
                          = {fonts[r].value.page : r \in C25_Offending}

\* Two records of one base font that is not embedded, on the two pages:
\* one finding names the font once and both pages.
C25_Witness ==
    /\ Analysed
    /\ Cardinality(C25_Offending) = 2
    /\ \E i \in 1..Len(issues) :
           /\ issues[i].type = "font_not_embedded"
           /\ issues[i].fonts = <<<<"Arial">>>>
           /\ issues[i].pages = <<1, 2>>

\* ---- longer documents of mixed page sizes ---------------------------------
MaxMixedPages == 5

\* Documents of up to MaxMixedPages unrotated A4 portrait, A4 landscape and
\* A3 landscape pages, each analysed by an analyzer of its own.
NextMixedSizes ==
    \/ \E n \in 1..MaxMixedPages :
         \E pdf \in [1..n -> { PageDict(<<0, 0, w[1], w[2]>>, NoBox, NoBox, NoBox) :
                                 w \in {<<595, 842>>, <<842, 595>>,
                                        <<1191, 842>>} }] :
             /\ analyses = 0
             /\ MeasureDoc(PlainDoc(pdf, FALSE, FALSE))
             /\ UNCHANGED result_before
    \/ AnalyzePreflight(AllPassed)
    \/ NewAnalyzer

SpecMixedSizes == InitAnalyze /\ [][NextMixedSizes]_vars

\* ---- C27 --------------------------------------------------------------
\* C27: every finding of the rule engine that lists affected pages lists
\* them in ascending page order and without duplicates.
C27_AffectedPagesCanonical ==
    Analysed =>
        \A i \in 1..Len(issues) :
            issues[i].type \in {"page_size_inconsistent", "font_not_embedded",
                                "spot_colors", "low_resolution_image",
                                "medium_resolution_image", "high_ink_coverage"}
                => \A k \in 1..(Len(issues[i].pages) - 1) :
                       issues[i].pages[k] < issues[i].pages[k + 1]

\* ---- check_overprint on content streams ----------------------------------
\* check_overprint(pdf_path) called on the checker of a new analyzer.
CheckOverprintCall(contents) ==
    /\ an_pc = "idle"
    /\ analyses = 0
    /\ analyses' = analyses + 1
    /\ doc' = [PlainDoc([k \in 1..Len(contents) |-> OnePagePdf[1]],
                        FALSE, FALSE) EXCEPT !.contents = contents]
    /\ pqc_issues' = pqc_issues \o CheckOverprint(contents).issues
    /\ pqc_warnings' = pqc_warnings \o CheckOverprint(contents).warnings
    /\ UNCHANGED <<schedVars, pipeVars, issues, pages, an_pc, preflight_result,
                   result_before, fonts, overall_status, images, handles,
                   print_quality>>

\* Files of up to MaxPages pages whose content streams fill white, black
\* or magenta and set overprint for stroking or for filling, on the same
\* line or on the next, or set none, with and without an ExtGState that
\* sets overprint.
NextOverprint ==
    \/ \E n \in 1..MaxPages :
         \E contents \in
                [1..n -> [content : {<<>>,
                                     <<"0 0 0 0 k", "1 OP">>,
                                     <<"0 0 0 1 k", "1 OP">>,
                                     <<"0 1 0 0 k", "1 OP">>,
                                     <<"0 0 0 0 k", "\n", "1 OP">>,
                                     <<"0 0 0 0 k", "1 op">>,
                                     <<"0 0 0 1 k", "1 OP", "\n",
                                       "0 0 0 0 k", "1 OP">>,
                                     <<"0 0 0 0 k", "re f", "\n",
                                       "0 0 0 1 k", "1 OP">>},
                          extgstate : BOOLEAN]] :
             CheckOverprintCall(contents)
    \/ NewAnalyzer

SpecOverprint == InitAnalyze /\ [][NextOverprint]_vars

\* ---- C26 --------------------------------------------------------------
\* The fill-colour operator that precedes operator j of a content stream.
C26_Preceding(content, j) ==
    LET before == {i \in 1..(j - 1) :
                      content[i] \in {"0 0 0 0 k", "0 0 0 0 K", "0 0 0 1 k",
                                      "0 0 0 1 K", "0 1 0 0 k"}}
    IN  IF before = {} THEN ""
        ELSE content[CHOOSE i \in before : \A m \in before : m <= i]

\* The pages of the checked file on which an operator sets overprint after
\* one of the given fill colours.
C26_Overprinted(colours) ==
    {p \in 1..Len(doc.contents) :
        \E j \in 1..Len(doc.contents[p].content) :
            /\ doc.contents[p].content[j] \in {"1 OP", "1 op", "1 OPM"}
            /\ C26_Preceding(doc.contents[p].content, j) \in colours}

\* The pages of the findings of one type and severity in a list.
C26_Reported(list, type, severity) ==
    UNION {{list[i].pages[k] : k \in 1..Len(list[i].pages)} :
              i \in {m \in 1..Len(list) :
                        list[m].type = type /\ list[m].severity = severity}}

\* C26: each page with overprint is reported in exactly one of three
\* classes: the pages that set overprint after a white fill colour in one
\* 'white_overprint_detected' error; of the others, those that set it after
\* a black fill colour in an informational finding only; and all remaining
\* pages with overprint, those with an overprinting ExtGState alone
\* included, in one 'overprint_detected' warning.
C26_OverprintClassification ==
    (analyses = 1 /\ an_pc = "idle") =>
        LET white  == C26_Overprinted({"0 0 0 0 k", "0 0 0 0 K"})
            k_only == C26_Overprinted({"0 0 0 1 k", "0 0 0 1 K"}) \ white
            with   == {p \in 1..Len(doc.contents) :
                          \/ doc.contents[p].extgstate
                          \/ \E j \in 1..Len(doc.contents[p].content) :
                                 doc.contents[p].content[j]
                                     \in {"1 OP", "1 op", "1 OPM"}}
            other  == with \ (white \cup k_only)
            count(list, type) ==
                Cardinality({i \in 1..Len(list) : list[i].type = type})
        IN  /\ C26_Reported(pqc_issues, "white_overprint_detected", "error")
                   = white
            /\ C26_Reported(pqc_warnings, "k_overprint_detected", "info")
                   = k_only
            /\ C26_Reported(pqc_warnings, "overprint_detected", "warning")
                   = other
            /\ count(pqc_issues, "white_overprint_detected")
                   = (IF white = {} THEN 0 ELSE 1)
            /\ count(pqc_warnings, "overprint_detected")
                   = (IF other = {} THEN 0 ELSE 1)
            /\ \A i \in 1..Len(pqc_issues) :
                   pqc_issues[i].type = "white_overprint_detected"
            /\ \A i \in 1..Len(pqc_warnings) :
                   pqc_warnings[i].severity = "info"
                       <=> pqc_warnings[i].type = "k_overprint_detected"

\* ---- _process_single_file, step by step ----------------------------------
\* What the pipeline of one file meets:
\*   analysis  "ok", or the exception raised inside analyze()
\*   fix       "not_needed" (_needs_auto_fix is false), "ctor_raises"
\*             (PDFFixer(...) raises), "fix_raises" (fix_pdf raises),
\*             "not_fixed" (fix_result['fixed'] is empty) or "fixed"
\*   compare   auto_fix_settings['create_comparison_report']
\*   rescan    the analysis of the fixed file: "ok", "error" (it returns an
\*             error result) or "raises"
\*   save      "none" (there is no data_manager), "ok" or "raises"
\*   report    generate_reports: "ok" or "raises"
\* The fields that a pipeline does not come to have their first value.
PipelineInputs ==
    LET plain == [analysis |-> "ok", fix |-> "not_needed", compare |-> FALSE,
                  rescan |-> "ok", save |-> "none", report |-> "ok"]
        fixes == {plain}
                 \cup {[plain EXCEPT !.fix = f] :
                          f \in {"ctor_raises", "fix_raises", "not_fixed",
                                 "fixed"}}
                 \cup {[plain EXCEPT !.fix = "fixed", !.compare = TRUE,
                                     !.rescan = r] :
                          r \in {"ok", "error", "raises"}}
    IN  {[plain EXCEPT !.analysis = a] :
            a \in {"FileNotFoundError", "PdfError", "MemoryError"}}
        \cup {[f EXCEPT !.save = sv, !.report = rp] :
                 f \in fixes, sv \in {"none", "ok", "raises"},
                 rp \in {"ok", "raises"}}

\* str(e) of an exception of the given type.
ExceptionText(type) ==
    CASE type = "FileNotFoundError" -> "No such file or directory"
      [] type = "PdfError"          -> "unable to find trailer dictionary"
      [] type = "MemoryError"       -> ""
      [] OTHER                      -> "No space left on device"

\* What analyze() returns: the result dict, of whose keys the model keeps
\* those the pipeline writes ("" and <<>>: the key is absent), or, when an
\* exception was raised inside it, {'error': str(e), ...}.
AnalyzeReturn(outcome) ==
    IF outcome = "ok"
    THEN [file_path |-> "original", fixed_file_path |-> "",
          original_file_path |-> "", auto_fix_applied |-> <<>>,
          fix_comparison |-> FALSE]
    ELSE [error |-> ExceptionText(outcome)]

\* The local auto_fix_applied: fix_result['modifications'], taken as soon
\* as fix_pdf has returned a fixed file.
AutoFixApplied(inp) ==
    IF inp.analysis = "ok" /\ inp.fix = "fixed" THEN <<"rgb_to_cmyk">> ELSE <<>>

\* Faulty variant of the auto-fix block: the result dict is written before
\* the fixed file is analysed again.
ResultAfterFixEarly(result, inp) ==
    IF inp.fix = "fixed"
    THEN [result EXCEPT !.auto_fix_applied = AutoFixApplied(inp),
                        !.fixed_file_path = "fixed",
                        !.original_file_path = "original",
                        !.file_path = "fixed"]
    ELSE result

\* The result dict after the auto-fix block: it is written once the fixed
\* file has been analysed again, where that is asked for, and an exception
\* raised anywhere in the block leaves the block before.
ResultAfterFix(result, inp) ==
    IF inp.fix = "fixed" /\ ~(inp.compare /\ inp.rescan = "raises")
    THEN [result EXCEPT !.auto_fix_applied = AutoFixApplied(inp),
                        !.fixed_file_path = "fixed",
                        !.original_file_path = "original",
                        !.file_path = "fixed",
                        !.fix_comparison = inp.compare]
    ELSE result

\* Faulty variant of the milestones: 40 is reported before the analysis
\* result is looked at.
MilestonesEarly(inp) ==
    <<10, 20, 40>>
    \o (IF inp.analysis # "ok" THEN <<>> ELSE <<60, 75, 90, 100>>)

\* The percent values the try body passes to progress_callback under the
\* status 'processing', up to its end or to the exception that leaves it.
Milestones(inp) ==
    <<10, 20>>
    \o (IF inp.analysis # "ok" THEN <<>>
        ELSE <<40>>
             \o (IF inp.fix = "not_needed" THEN <<>> ELSE <<45, 50>>)
             \o (IF inp.fix = "fixed" /\ inp.compare THEN <<55>> ELSE <<>>)
             \o <<60>>
             \o (IF inp.save = "none" THEN <<>> ELSE <<65>>)
             \o <<75>>
             \o (IF inp.report = "raises" THEN <<>> ELSE <<90, 100>>))

\* The exception that leaves the try body (<<>>: none): the one made from
\* the error result of analyze(), raise Exception(result['error']), or the
\* one generate_reports raises.
PipelineException(inp) ==
    IF inp.analysis # "ok"
    THEN [type |-> "Exception", message |-> AnalyzeReturn(inp.analysis).error]
    ELSE IF inp.report = "raises"
         THEN [type |-> "OSError", message |-> ExceptionText("OSError")]
         ELSE <<>>

\* error_handler.handle_error(e, context): the classification of e, by its
\* type, with its text.
HandleError(e) == [type |-> e.type, message |-> e.message]

\* error_handler.get_user_message(error_info): the message that stands for
\* the classification.
GetUserMessage(error_info) == <<"message for", error_info.type>>

\* _process_single_file for a waiting file of a batch whose files are
\* processed one after another.
ProcessSingleFile(fid, inp) ==
    LET e      == PipelineException(inp)
        result == IF inp.analysis = "ok"
                  THEN ResultAfterFix(AnalyzeReturn("ok"), inp)
                  ELSE AnalyzeReturn(inp.analysis)
        n      == Len(Milestones(inp))
    IN  /\ file_dict[fid] = "waiting"
        /\ run[fid] = <<>>
        /\ NumType("batch_complete") = 0
        /\ \A j \in Jobs :
               (run[j] # <<>> /\ run[j].inp.analysis = "ok"
                   /\ inp.analysis = "ok")
                   => (run[j].inp.save = "none" <=> inp.save = "none")
        /\ run' = [run EXCEPT ![fid] = [inp |-> inp, result |-> result]]
        /\ percents' = [percents EXCEPT ![fid] = @ \o Milestones(inp) \o <<100>>]
        /\ reported' = [reported EXCEPT ![fid] =
               @ \o [k \in 1..n |-> "processing"]
                 \o <<IF e = <<>> THEN "complete" ELSE "error">>]
        /\ IF e = <<>>
           THEN /\ result_queue' = Append(result_queue,
                       [type             |-> "complete",
                        file_id          |-> fid,
                        result           |-> result,
                        auto_fix_applied |-> AutoFixApplied(inp),
                        fixed_file       |-> IF AutoFixApplied(inp) # <<>>
                                             THEN "fixed" ELSE ""])
                /\ processed_count' = processed_count + 1
                /\ UNCHANGED error_count
           ELSE /\ result_queue' = Append(result_queue,
                       [type          |-> "error",
                        file_id       |-> fid,
                        error         |-> GetUserMessage(HandleError(e)),
                        error_details |-> HandleError(e)])
                /\ error_count' = error_count + 1
                /\ UNCHANGED processed_count
        /\ UNCHANGED <<file_dict, file_queue, flagVars, main_pc, wpc, cur, tmp,
                       ctl_pc, histVars, anVars>>

\* _complete_processing, once every file has been processed.
CompleteBatch ==
    /\ \A j \in Jobs : run[j] # <<>>
    /\ NumType("batch_complete") = 0
    /\ result_queue' = Append(result_queue, BatchResult)
    /\ UNCHANGED <<file_dict, file_queue, flagVars, countVars, main_pc, wpc,
                   cur, tmp, ctl_pc, reported, histVars, anVars, pipeVars>>

NextPipeline ==
    \/ \E fid \in Jobs : \E inp \in PipelineInputs : ProcessSingleFile(fid, inp)
    \/ CompleteBatch

SpecPipeline == InitAnalyze /\ [][NextPipeline]_vars

\* ---- C21 --------------------------------------------------------------
\* C21: when the analysis of a file ends with a fatal exception, the job
\* gets one 'error' record and no 'complete' record, and the
\* classification in the record's error_details, from which its message is
\* made, is that of the exception raised inside analyze(): records of
\* analyses that ended with exceptions of different kinds differ in it.
C21_ClassificationKept ==
    \A j \in Jobs :
        (run[j] # <<>> /\ run[j].inp.analysis # "ok") =>
            /\ LastStatus(j) = "error"
            /\ \A i \in 1..Len(result_queue) :
                   result_queue[i].file_id = j =>
                       /\ result_queue[i].type = "error"
                       /\ result_queue[i].error_details.type
                              = run[j].inp.analysis
                       /\ result_queue[i].error
                              = GetUserMessage([type |-> run[j].inp.analysis])

C24_FixFailed(j) ==
    \/ run[j].inp.fix \in {"ctor_raises", "fix_raises"}
    \/ run[j].inp.fix = "fixed" /\ run[j].inp.compare
           /\ run[j].inp.rescan = "raises"

\* C24: an exception raised by the auto-fix block (by the construction of
\* the fixer, by fix_pdf or by the second analysis) or by the data
\* manager's save does not change the outcome of the job: where the reports
\* are made it has one record, 'complete', and is counted as processed and
\* not as an error; and after a failed auto-fix the result dict has its
\* file_path unchanged and no fixed_file_path.
C24_OptionalStepsRecovered ==
    /\ processed_count = NumType("complete")
    /\ error_count = NumType("error")
    /\ \A j \in Jobs :
           (run[j] # <<>> /\ run[j].inp.analysis = "ok"
               /\ (C24_FixFailed(j) \/ run[j].inp.save = "raises")) =>
               /\ run[j].inp.report = "ok" =>
                      /\ LastStatus(j) = "complete"
                      /\ \A i \in 1..Len(result_queue) :
                             result_queue[i].file_id = j =>
                                 result_queue[i].type = "complete"
                      /\ \E i \in 1..Len(result_queue) :
                             result_queue[i].file_id = j
               /\ C24_FixFailed(j) =>
                      /\ run[j].result.file_path = "original"
                      /\ run[j].result.fixed_file_path = ""

\* The second analysis of a fixed file raised and so did the save, and the
\* job is complete and counted as processed.
C24_Witness ==
    \E j \in Jobs :
        /\ run[j] # <<>>
        /\ run[j].inp.fix = "fixed" /\ run[j].inp.compare
        /\ run[j].inp.rescan = "raises"
        /\ run[j].inp.save = "raises"
        /\ LastStatus(j) = "complete"
        /\ processed_count >= 1

\* ---- C28 --------------------------------------------------------------
\* C28: auto_fixed of the batch_complete record is the number of the
\* 'complete' records of the run with a non-empty auto_fix_applied.
C28_AutoFixedExact ==
    \A i \in 1..Len(result_queue) :
        result_queue[i].type = "batch_complete" =>
            result_queue[i].auto_fixed
                = Cardinality({k \in 1..Len(result_queue) :
                                  /\ result_queue[k].type = "complete"
                                  /\ result_queue[k].auto_fix_applied # <<>>})

====
